---- MODULE Spec2Model ----
(***************************************************************************)
(* A model of render.py, the static-site generator of the extension        *)
(* compatibility report: the compatibility aggregator                      *)
(* (calculate_failure_rate_and_failed_extensions), the evidence locator    *)
(* (get_terminal_outputs), the tabular readers and generate_website.       *)
(*                                                                         *)
(* Python strings are sequences of one-character strings, so that          *)
(* concatenation, str.startswith, str.strip, str.lower and the code-point  *)
(* order used by sorted() are computed and not assumed.                    *)
(***************************************************************************)
EXTENDS Integers, Sequences, FiniteSets, TLC

VARIABLES
    fs,                 \* the input files: layout, csvs, assets, evidence
    include_descriptions, \* generate_website's include_descriptions argument
    build0,             \* the output tree before the first run
    build,              \* the output tree (build_path)
    pc,                 \* position of generate_website
    run,                \* 1 or 2: which invocation of generate_website
    log,                \* the diagnostics printed by the current run
    tables,             \* source_code, descriptions, infos, mechanisms (233-236)
    all_extensions,     \* the metadata universe (235)
    extensions,         \* the matrix header (238), or calculate's argument
    matrix,             \* the compatibility matrix (238), or calculate's argument
    extension_data,     \* the results page's entries (241-258)
    idx,                \* the page loop's position in all_extensions (290)
    tree1,              \* the output tree as the first run left it
    results,            \* calculate's result for every extension of the header
    extension,          \* get_terminal_outputs' extension argument
    failed_extensions,  \* get_terminal_outputs' failed_extensions argument
    terminal_outputs    \* get_terminal_outputs' return value

vars == << fs, include_descriptions, build0, build, pc, run, log, tables,
           all_extensions, extensions, matrix, extension_data, idx, tree1,
           results, extension, failed_extensions, terminal_outputs >>

None == "none"

----------------------------------------------------------------------------
(* Strings.                                                                *)

\* ord(): the code points of the characters the model uses.
Ord(c) ==
    CASE c = " " -> 32
      [] c = "/" -> 47
      [] c = "N" -> 78
      [] c = "O" -> 79
      [] c = "_" -> 95
      [] c = "a" -> 97
      [] c = "b" -> 98
      [] c = "c" -> 99
      [] c = "e" -> 101
      [] c = "n" -> 110
      [] c = "o" -> 111
      [] c = "s" -> 115
      [] c = "y" -> 121

\* Python's str < str: the first differing code point decides, a proper
\* prefix is smaller.
RECURSIVE StrLess(_, _)
StrLess(s, t) ==
    IF t = << >> THEN FALSE
    ELSE IF s = << >> THEN TRUE
    ELSE IF Head(s) = Head(t) THEN StrLess(Tail(s), Tail(t))
    ELSE Ord(Head(s)) < Ord(Head(t))

\* str.startswith
StartsWith(s, p) ==
    /\ Len(p) <= Len(s)
    /\ SubSeq(s, 1, Len(p)) = p

\* str.lower on the characters the model uses
LowerChar(c) ==
    CASE c = "N" -> "n"
      [] c = "O" -> "o"
      [] OTHER -> c

Lower(s) == [k \in 1..Len(s) |-> LowerChar(s[k])]

\* str.strip: leading and trailing blanks removed
RECURSIVE LStrip(_)
LStrip(s) ==
    IF s # << >> /\ Head(s) = " " THEN LStrip(Tail(s)) ELSE s

RECURSIVE RStrip(_)
RStrip(s) ==
    IF s # << >> /\ s[Len(s)] = " " THEN RStrip(SubSeq(s, 1, Len(s) - 1)) ELSE s

Strip(s) == RStrip(LStrip(s))

\* sorted() of a set of strings: ascending code-point order
RECURSIVE Sorted(_)
Sorted(S) ==
    IF S = {} THEN << >>
    ELSE LET m == CHOOSE x \in S : \A y \in S \ {x} : StrLess(x, y)
         IN  << m >> \o Sorted(S \ {m})

\* The elements of a sequence.
Range(s) == {s[k] : k \in 1..Len(s)}

\* The sequences without repetition over a set, of length at most n.
RECURSIVE DistinctSeqs(_, _)
DistinctSeqs(S, n) ==
    IF n = 0 \/ S = {} THEN { << >> }
    ELSE { << >> } \cup
         UNION { { << x >> \o t : t \in DistinctSeqs(S \ {x}, n - 1) } : x \in S }

StrictlyAscending(s) == \A k \in 1..(Len(s) - 1) : StrLess(s[k], s[k + 1])

sNo == << "n", "o" >>
sYes == << "y", "e", "s" >>

----------------------------------------------------------------------------
(* The compatibility aggregator.  A matrix is a dict of dicts: a function  *)
(* from the row names to functions from (some) header names to cell        *)
(* values.                                                                 *)

\* lines 37-43: the row pass, folded over the list `extensions` in order.
\* acc is [total_tests, failures, failed, order]; `order` keeps the order
\* in which names enter the set failed_extensions.
RECURSIVE RowPass(_, _, _, _)
RowPass(ext, exts, m, acc) ==
    IF exts = << >> THEN acc
    ELSE LET other_ext == Head(exts)
             counted == other_ext # ext /\ other_ext \in DOMAIN m[ext]
             isNo == counted /\ m[ext][other_ext] = sNo
             acc2 == [ total_tests |-> acc.total_tests + (IF counted THEN 1 ELSE 0),
                       failures |-> acc.failures + (IF isNo THEN 1 ELSE 0),
                       failed |-> IF isNo THEN acc.failed \cup {other_ext}
                                  ELSE acc.failed,
                       order |-> IF isNo /\ other_ext \notin acc.failed
                                 THEN Append(acc.order, other_ext)
                                 ELSE acc.order ]
         IN  RowPass(ext, Tail(exts), m, acc2)

\* The column pass with the row's direction read again: a transposition slip.
RECURSIVE ColumnPassSameDirection(_, _, _, _)
ColumnPassSameDirection(ext, exts, m, acc) ==
    IF exts = << >> THEN acc
    ELSE LET other_ext == Head(exts)
             counted == /\ other_ext # ext
                        /\ ext \in DOMAIN m
                        /\ other_ext \in DOMAIN m[ext]
             isNo == counted /\ m[ext][other_ext] = sNo
             acc2 == [ total_tests |-> acc.total_tests + (IF counted THEN 1 ELSE 0),
                       failures |-> acc.failures + (IF isNo THEN 1 ELSE 0),
                       failed |-> IF isNo THEN acc.failed \cup {other_ext}
                                  ELSE acc.failed,
                       order |-> IF isNo /\ other_ext \notin acc.failed
                                 THEN Append(acc.order, other_ext)
                                 ELSE acc.order ]
         IN  ColumnPassSameDirection(ext, Tail(exts), m, acc2)

\* lines 46-52: the column pass.
RECURSIVE ColumnPass(_, _, _, _)
ColumnPass(ext, exts, m, acc) ==
    IF exts = << >> THEN acc
    ELSE LET other_ext == Head(exts)
             counted == /\ other_ext # ext
                        /\ other_ext \in DOMAIN m
                        /\ ext \in DOMAIN m[other_ext]
             isNo == counted /\ m[other_ext][ext] = sNo
             acc2 == [ total_tests |-> acc.total_tests + (IF counted THEN 1 ELSE 0),
                       failures |-> acc.failures + (IF isNo THEN 1 ELSE 0),
                       failed |-> IF isNo THEN acc.failed \cup {other_ext}
                                  ELSE acc.failed,
                       order |-> IF isNo /\ other_ext \notin acc.failed
                                 THEN Append(acc.order, other_ext)
                                 ELSE acc.order ]
         IN  ColumnPass(ext, Tail(exts), m, acc2)

\* lines 32-52: the counters and the set after both passes.
Tally(ext, exts, m) ==
    LET acc0 == [ total_tests |-> 0, failures |-> 0, failed |-> {}, order |-> << >> ]
        acc1 == IF ext \in DOMAIN m THEN RowPass(ext, exts, m, acc0) ELSE acc0
    IN  ColumnPass(ext, exts, m, acc1)

\* The rate over the tests that passed instead of over all tests.
FailureRateOverPassed(failures, total_tests) ==
    IF total_tests - failures > 0
    THEN [ num |-> failures * 100, den |-> total_tests - failures ]
    ELSE [ num |-> 0, den |-> 1 ]

\* line 54: failures / total_tests * 100, or 0.  The quotient is kept as
\* the exact fraction num/den; the rounding of the float division is not
\* modelled.
FailureRate(failures, total_tests) ==
    IF total_tests > 0
    THEN [ num |-> failures * 100, den |-> total_tests ]
    ELSE [ num |-> 0, den |-> 1 ]

\* The failed set listed in the order of insertion, not sorted.
FailedListUnsorted(acc) == acc.order

\* line 55: sorted(list(failed_extensions))
FailedList(acc) == Sorted(acc.failed)

\* lines 30-55
calculate_failure_rate_and_failed_extensions(ext, exts, m) ==
    LET acc == Tally(ext, exts, m)
    IN  [ failure_rate |-> FailureRate(acc.failures, acc.total_tests),
          failed_extensions |-> FailedList(acc) ]

----------------------------------------------------------------------------
(* Names, and the inputs of the aggregator.                                *)

nA == << "a" >>
nB == << "b" >>
nC == << "c" >>

AggNames == {nA, nB, nC}

\* At most this many cells (E, E) of the diagonal are recorded.
MaxDiag == 1

Coords(header) == {rc \in AggNames \X Range(header) : TRUE}

Recordings(header) ==
    {R \in SUBSET Coords(header) :
        Cardinality({rc \in R : rc[1] = rc[2]}) <= MaxDiag}

\* The dict of dicts holding the recorded cells R with the values v; a row
\* without a cell is a key with an empty dict when keepEmpty, else no key.
MatrixOf(R, v, keepEmpty) ==
    LET rows == IF keepEmpty THEN AggNames ELSE {rc[1] : rc \in R}
    IN  [r \in rows |-> [c \in {rc[2] : rc \in {x \in R : x[1] = r}} |-> v[<< r, c >>]]]

AggMatrices(header) ==
    UNION { { MatrixOf(R, v, k) : v \in [R -> {sYes, sNo}], k \in BOOLEAN }
            : R \in Recordings(header) }

\* The matrix of the spec's concrete scenario over [a, b, c].
ScenarioMatrix ==
    (nA :> (nB :> sNo @@ nC :> sYes)) @@
    (nB :> (nA :> sYes @@ nC :> sNo)) @@
    (nC :> (nA :> sNo @@ nB :> sYes))

\* generate_website is not running.
Idle ==
    /\ include_descriptions = FALSE /\ build0 = None /\ build = None
    /\ run = 0 /\ log = {} /\ tables = None /\ all_extensions = << >>
    /\ extension_data = << >> /\ idx = 0 /\ tree1 = None

AggInit ==
    /\ Idle
    /\ fs = None
    /\ pc = "aggregate"
    /\ extensions \in DistinctSeqs(AggNames, Cardinality(AggNames))
    /\ matrix \in AggMatrices(extensions)
    /\ results = None
    /\ extension = None /\ failed_extensions = << >> /\ terminal_outputs = None

\* calculate_failure_rate_and_failed_extensions called for every extension
\* of the header, as generate_website's loops do (lines 245, 293).
Aggregate ==
    /\ pc = "aggregate"
    /\ results' = [e \in Range(extensions) |->
                     calculate_failure_rate_and_failed_extensions(e, extensions, matrix)]
    /\ pc' = "aggregated"
    /\ UNCHANGED << fs, include_descriptions, build0, build, run, log, tables,
                    all_extensions, extensions, matrix, extension_data, idx, tree1,
                    extension, failed_extensions, terminal_outputs >>

AggNext == Aggregate

SpecAgg == AggInit /\ [][AggNext]_vars

----------------------------------------------------------------------------
(* The aggregator's contract.                                              *)

Known == Range(extensions)

Recorded(m, r, c) == r \in DOMAIN m /\ c \in DOMAIN m[r]

CellIsNo(m, r, c) == Recorded(m, r, c) /\ m[r][c] = sNo

\* The recorded cells touching E: those of its row, and those of its column.
RowCells(E) == {O \in Known \ {E} : Recorded(matrix, E, O)}
ColCells(E) == {O \in Known \ {E} : Recorded(matrix, O, E)}
RowNoCells(E) == {O \in Known \ {E} : CellIsNo(matrix, E, O)}
ColNoCells(E) == {O \in Known \ {E} : CellIsNo(matrix, O, E)}

\* The matrix without the cell (r, c).
RemoveCell(m, r, c) ==
    [x \in DOMAIN m |->
        IF x = r THEN [y \in DOMAIN m[x] \ {c} |-> m[x][y]] ELSE m[x]]

\* C1: the failure rate of every extension E is 100 * failed / tested over
\* the recorded cells (E,O) and (O,E), O # E, each direction counted on its
\* own; it is 0 when there is no such cell; it lies in [0, 100]; and the
\* scenario matrix over [a, b, c] gives tested = 4, failed = 2, rate = 50
\* for a.
C1_FailureRate ==
    pc = "aggregated" =>
        /\ \A E \in Known :
              LET tested == Cardinality(RowCells(E)) + Cardinality(ColCells(E))
                  failed == Cardinality(RowNoCells(E)) + Cardinality(ColNoCells(E))
                  r == results[E].failure_rate
              IN  /\ r.den > 0
                  /\ tested > 0 => r.num * tested = 100 * failed * r.den
                  /\ tested = 0 => r.num = 0
                  /\ 0 <= r.num /\ r.num <= 100 * r.den
        /\ (matrix = ScenarioMatrix /\ Known = AggNames) =>
              /\ Tally(nA, extensions, matrix).total_tests = 4
              /\ Tally(nA, extensions, matrix).failures = 2
              /\ results[nA].failure_rate.num = 50 * results[nA].failure_rate.den

C1_Witness ==
    /\ pc = "aggregated"
    /\ matrix = ScenarioMatrix
    /\ extensions = << nC, nA, nB >>
    /\ results[nA].failure_rate = [num |-> 200, den |-> 4]

\* C2: the failed list of every extension E is strictly ascending, holds
\* only known extensions other than E, and holds exactly the counterparts O
\* with cell (E,O) or cell (O,E) equal to "no", each once.
C2_FailedList ==
    pc = "aggregated" =>
        \A E \in Known :
            LET L == results[E].failed_extensions
            IN  /\ StrictlyAscending(L)
                /\ Range(L) \subseteq Known \ {E}
                /\ Range(L) = RowNoCells(E) \cup ColNoCells(E)
                /\ Len(L) = Cardinality(RowNoCells(E) \cup ColNoCells(E))

\* a fails with c in both directions and with b in one; the header is not in
\* ascending order.
C2_Witness ==
    /\ pc = "aggregated"
    /\ extensions = << nC, nB, nA >>
    /\ CellIsNo(matrix, nA, nC) /\ CellIsNo(matrix, nC, nA)
    /\ CellIsNo(matrix, nB, nA) /\ ~ CellIsNo(matrix, nA, nB)
    /\ results[nA].failed_extensions = << nB, nC >>

\* C3: a cell (A,B) = "no" is one test and one failure of A (row pass) and
\* one test and one failure of B (column pass), whatever (B,A) is; with
\* (B,A) = "yes" the pair gives each of A and B two tests and one failure;
\* and B is in A's failed list exactly when A is in B's.
C3_Asymmetric ==
    /\ \A A \in Known : \A B \in Known \ {A} :
          CellIsNo(matrix, A, B) =>
            LET without == RemoveCell(matrix, A, B)
                both == RemoveCell(without, B, A)
            IN  /\ \A X \in {A, B} :
                      LET with == Tally(X, extensions, matrix)
                          less == Tally(X, extensions, without)
                      IN  /\ with.total_tests = less.total_tests + 1
                          /\ with.failures = less.failures + 1
                /\ (Recorded(matrix, B, A) /\ matrix[B][A] = sYes) =>
                      \A X \in {A, B} :
                          LET with == Tally(X, extensions, matrix)
                              less == Tally(X, extensions, both)
                          IN  /\ with.total_tests = less.total_tests + 2
                              /\ with.failures = less.failures + 1
    /\ pc = "aggregated" =>
          \A A \in Known : \A B \in Known \ {A} :
              (B \in Range(results[A].failed_extensions))
                  <=> (A \in Range(results[B].failed_extensions))

C3_Witness ==
    /\ pc = "aggregated"
    /\ CellIsNo(matrix, nA, nB)
    /\ Recorded(matrix, nB, nA) /\ matrix[nB][nA] = sYes
    /\ nB \in Range(results[nA].failed_extensions)
    /\ nA \in Range(results[nB].failed_extensions)

----------------------------------------------------------------------------
(* The evidence locator.  The captured outputs are a function from the     *)
(* pair identifiers whose total_compat_output/<id>/terminal.txt exists to  *)
(* the file: its content, and whether open() and read() succeed on it.     *)

Unreadable == [ readable |-> FALSE, content |-> 0 ]

Underscore == << "_" >>

\* lines 168-171
Directions(ext, failed_ext) ==
    << ext \o Underscore \o failed_ext, failed_ext \o Underscore \o ext >>

\* lines 181-199: the entry recorded for a direction that was read.
EntryFor(ext, failed_ext, direction, content) ==
    IF StartsWith(direction, ext \o Underscore)
    THEN [ group |-> failed_ext,
           entry |-> [ pair |-> direction, first_ext |-> ext,
                       second_ext |-> failed_ext, content |-> content ] ]
    ELSE [ group |-> failed_ext,
           entry |-> [ pair |-> direction, first_ext |-> failed_ext,
                       second_ext |-> ext, content |-> content ] ]

\* The probe of one direction that also records a file it could not read,
\* with an empty content.
ProbeKeepingUnreadable(ext, failed_ext, direction, evidence, by) ==
    IF direction \notin DOMAIN evidence THEN by
    ELSE LET e == EntryFor(ext, failed_ext, direction,
                           evidence[direction].content)
         IN  IF e.group \in DOMAIN by
             THEN [by EXCEPT ![e.group] = Append(@, e.entry)]
             ELSE by @@ (e.group :> << e.entry >>)

\* lines 174-202: the probe of one direction; `by` is
\* terminal_outputs_by_extension.
Probe(ext, failed_ext, direction, evidence, by) ==
    IF direction \notin DOMAIN evidence THEN by                 \* line 175
    ELSE IF ~ evidence[direction].readable THEN by              \* lines 201-202
    ELSE LET e == EntryFor(ext, failed_ext, direction, evidence[direction].content)
         IN  IF e.group \in DOMAIN by
             THEN [by EXCEPT ![e.group] = Append(@, e.entry)]
             ELSE by @@ (e.group :> << e.entry >>)

\* lines 166-202: the loop over failed_extensions
RECURSIVE ProbeAll(_, _, _, _)
ProbeAll(ext, failed, evidence, by) ==
    IF failed = << >> THEN by
    ELSE LET d == Directions(ext, Head(failed))
             by1 == Probe(ext, Head(failed), d[1], evidence, by)
             by2 == Probe(ext, Head(failed), d[2], evidence, by1)
         IN  ProbeAll(ext, Tail(failed), evidence, by2)

\* The groups in the order the dict was filled, not sorted.
GroupsUnsorted(failed, by) ==
    LET keys == SelectSeq(failed, LAMBDA f : f \in DOMAIN by)
    IN  [k \in 1..Len(keys) |-> << keys[k], by[keys[k]] >>]

\* lines 204-207
Groups(failed, by) ==
    LET keys == Sorted(DOMAIN by)
    IN  [k \in 1..Len(keys) |-> << keys[k], by[keys[k]] >>]

\* lines 162-209
get_terminal_outputs(ext, failed, evidence) ==
    Groups(failed, ProbeAll(ext, failed, evidence, << >>))

nAB == << "a", "_", "b" >>
nBA == << "b", "_", "a" >>
nABA == << "a", "_", "b", "_", "a" >>

\* a and b are a plain pair; a_b holds an underscore, and a followed by "_"
\* is a prefix of it.
LocNames == {nA, nB, nAB}

\* The length of the failed list is at most MaxFailed.
MaxFailed == 2

\* The readable captured outputs: two distinct contents.
Contents == {[ readable |-> TRUE, content |-> k ] : k \in {1, 2}}

ProbeIds(ext, failed) ==
    UNION { Range(Directions(ext, f)) : f \in Range(failed) }

EvidenceOver(ids) ==
    UNION { [present -> Contents \cup {Unreadable}] : present \in SUBSET ids }

LocInit ==
    /\ Idle
    /\ pc = "locate"
    /\ extensions = << >> /\ matrix = << >> /\ results = None
    /\ extension \in LocNames
    /\ failed_extensions \in DistinctSeqs(LocNames \ {extension}, MaxFailed)
    /\ fs \in { [evidence |-> ev] : ev \in EvidenceOver(ProbeIds(extension, failed_extensions)) }
    /\ terminal_outputs = None

Locate ==
    /\ pc = "locate"
    /\ terminal_outputs' = get_terminal_outputs(extension, failed_extensions, fs.evidence)
    /\ pc' = "located"
    /\ UNCHANGED << fs, include_descriptions, build0, build, run, log, tables,
                    all_extensions, extensions, matrix, extension_data, idx, tree1,
                    results, extension, failed_extensions >>

LocNext == Locate

SpecLoc == LocInit /\ [][LocNext]_vars

----------------------------------------------------------------------------
(* The locator's contract.                                                 *)

Resolves(d) == d \in DOMAIN fs.evidence /\ fs.evidence[d].readable

\* The probes (1: extension_F, 2: F_extension) of F that resolve, in order.
Hits(F) ==
    SelectSeq(<< 1, 2 >>, LAMBDA k : Resolves(Directions(extension, F)[k]))

GroupKeys == [k \in 1..Len(terminal_outputs) |-> terminal_outputs[k][1]]

\* C5: the groups are sorted ascending by counterpart with no counterpart
\* twice; F has a group exactly when one of its two identifiers resolves to
\* a readable file; the group holds one entry per resolving identifier, in
\* probe order, with that file's content; an unreadable file adds no entry
\* and no empty group.  With only a_b existing, locate(a, [b]) is one group
\* keyed b with one entry.
C5_Groups ==
    pc = "located" =>
        /\ StrictlyAscending(GroupKeys)
        /\ Range(GroupKeys) = {F \in Range(failed_extensions) : Hits(F) # << >>}
        /\ \A k \in 1..Len(terminal_outputs) :
              LET F == terminal_outputs[k][1]
                  entries == terminal_outputs[k][2]
                  d == Directions(extension, F)
              IN  /\ Len(entries) = Len(Hits(F))
                  /\ Len(entries) \in {1, 2}
                  /\ \A j \in 1..Len(entries) :
                        /\ entries[j].pair = d[Hits(F)[j]]
                        /\ entries[j].content = fs.evidence[d[Hits(F)[j]]].content
        /\ ( /\ extension = nA /\ failed_extensions = << nB >>
             /\ DOMAIN fs.evidence = {nAB} /\ fs.evidence[nAB].readable )
           => /\ Len(terminal_outputs) = 1
              /\ terminal_outputs[1][1] = nB
              /\ Len(terminal_outputs[1][2]) = 1
              /\ terminal_outputs[1][2][1].content = fs.evidence[nAB].content

\* Both directions of (a, b) are kept, with different contents; the only
\* file of (a, a_b) is unreadable and gives no group; the failed list is
\* not in ascending order.
C5_Witness ==
    /\ pc = "located"
    /\ extension = nA
    /\ failed_extensions = << nB, nAB >>
    /\ DOMAIN fs.evidence = {nAB, nBA, nABA}
    /\ fs.evidence[nAB].content = 1
    /\ fs.evidence[nBA].content = 2
    /\ ~ fs.evidence[nABA].readable
    /\ Len(terminal_outputs) = 1
    /\ Len(terminal_outputs[1][2]) = 2

\* C10: every entry keeps the direction of the identifier it was found
\* under: under extension_F it has first_ext = extension, second_ext = F,
\* under F_extension it has first_ext = F, second_ext = extension, so that
\* pair = first_ext + "_" + second_ext; and it is grouped under F.
C10_Direction ==
    pc = "located" =>
        \A k \in 1..Len(terminal_outputs) :
            LET F == terminal_outputs[k][1]
                entries == terminal_outputs[k][2]
                d == Directions(extension, F)
            IN  /\ F \in Range(failed_extensions)
                /\ \A j \in 1..Len(entries) :
                      /\ j <= Len(Hits(F))
                      /\ entries[j].pair = d[Hits(F)[j]]
                      /\ entries[j].first_ext =
                            (IF Hits(F)[j] = 1 THEN extension ELSE F)
                      /\ entries[j].second_ext =
                            (IF Hits(F)[j] = 1 THEN F ELSE extension)
                      /\ entries[j].pair =
                            entries[j].first_ext \o Underscore \o entries[j].second_ext

----------------------------------------------------------------------------
(* The tabular readers.  A csv file is its rows, each row its cells; the   *)
(* splitting at line breaks and commas is not modelled.                    *)

\* dict.get(key, default)
Get(d, key, default) == IF key \in DOMAIN d THEN d[key] ELSE default

\* The dict a loop of assignments d[key(row)] = value(row) leaves: the last
\* row of a key wins.
RECURSIVE DictOf(_, _)
DictOf(rows, d) ==
    IF rows = << >> THEN d
    ELSE LET k == Strip(Head(rows).name)
             rest == [x \in DOMAIN d \ {k} |-> d[x]]
         IN  DictOf(Tail(rows), rest @@ (k :> Head(rows).value))

\* lines 12-13: the header without its first cell, stripped
HeaderOf(rows) ==
    LET header == rows[1]
    IN  [j \in 1..(Len(header) - 1) |-> Strip(header[j + 1])]

\* lines 17-26: one data row added to the matrix
RowInto(m, exts, cells) ==
    LET ext_name == Strip(cells[1])
        old == IF ext_name \in DOMAIN m THEN m[ext_name] ELSE << >>
        new == [c \in {exts[j] : j \in 1..(Len(cells) - 1)} |->
                   LET j == CHOOSE j \in 1..(Len(cells) - 1) :
                                /\ exts[j] = c
                                /\ \A i \in (j + 1)..(Len(cells) - 1) : exts[i] # c
                   IN  Lower(Strip(cells[j + 1]))]
        merged == [c \in DOMAIN old \cup DOMAIN new |->
                      IF c \in DOMAIN new THEN new[c] ELSE old[c]]
    IN  [r \in DOMAIN m \cup {ext_name} |-> IF r = ext_name THEN merged ELSE m[r]]

RECURSIVE RowsInto(_, _, _)
RowsInto(m, exts, rows) ==
    IF rows = << >> THEN m
    ELSE RowsInto(RowInto(m, exts, Head(rows)), exts, Tail(rows))

\* lines 7-28
parse_csv(rows) ==
    [ extensions |-> HeaderOf(rows),
      matrix |-> RowsInto(<< >>, HeaderOf(rows), Tail(rows)) ]

\* row.get(column, '').strip().lower() == 'yes'
IsYes(row, column) ==
    column \in DOMAIN row.flags /\ Lower(Strip(row.flags[column])) = sYes

\* lines 103-117
ExtensibilityColumns ==
    << "Functions", "Types", "Index Access Methods", "Storage Managers",
       "Client Authentication", "Query Processing", "Utility Commands" >>

\* lines 103-121
ExtensibilityTypes(row) ==
    LET types == SelectSeq(ExtensibilityColumns, LAMBDA c : IsYes(row, c))
    IN  IF types # << >> THEN types ELSE << "None" >>

\* lines 139-145
ComponentColumns ==
    << "Memory Allocation", "Background Workers", "Custom Configuration Variables" >>

\* lines 139-154
SystemComponents(row) ==
    LET components == SelectSeq(ComponentColumns, LAMBDA c : IsYes(row, c))
        num_components == IF "Number of Components" \in DOMAIN row.flags
                          THEN Strip(row.flags["Number of Components"])
                          ELSE << "0" >>
    IN  IF num_components = << "0" >> \/ components = << >>
        THEN << "None" >>
        ELSE components

\* The input files generate_website reads besides the layout's templates.
TabularPaths ==
    { "csvs/compatibility.csv", "csvs/source_code.csv", "csvs/descriptions.csv",
      "csvs/infos.csv", "csvs/mechanisms.csv" }

MetadataPaths == TabularPaths \ { "csvs/compatibility.csv" }

AssetPaths == { "layout/css", "portraits" }

Warning(path) == << "Warning: not found", path >>

\* lines 57-72, 74-89: a reader returning a dict; its two outcomes
ReadDict(files, path, rows) ==
    IF path \in files.present
    THEN [ data |-> DictOf(rows, << >>), printed |-> {} ]
    ELSE [ data |-> << >>, printed |-> {Warning(path)} ]            \* lines 67-68

\* lines 57-72
parse_source_code_csv(files) ==
    ReadDict(files, "csvs/source_code.csv", files.source_code_rows)

\* lines 74-89
parse_descriptions_csv(files) ==
    ReadDict(files, "csvs/descriptions.csv", files.descriptions_rows)

\* lines 91-127
parse_infos_csv(files) ==
    IF "csvs/infos.csv" \in files.present
    THEN [ data |-> DictOf([k \in 1..Len(files.infos_rows) |->
                               [ name |-> files.infos_rows[k].name,
                                 value |-> [ extensibility_types |->
                                     ExtensibilityTypes(files.infos_rows[k]) ] ]],
                           << >>),
           extensions_list |-> [k \in 1..Len(files.infos_rows) |->
                                   Strip(files.infos_rows[k].name)],
           printed |-> {} ]
    ELSE [ data |-> << >>, extensions_list |-> << >>,
           printed |-> {Warning("csvs/infos.csv")} ]                \* lines 122-123

\* lines 129-160
parse_mechanisms_csv(files) ==
    IF "csvs/mechanisms.csv" \in files.present
    THEN [ data |-> DictOf([k \in 1..Len(files.mechanisms_rows) |->
                               [ name |-> files.mechanisms_rows[k].name,
                                 value |-> [ system_components |->
                                     SystemComponents(files.mechanisms_rows[k]) ] ]],
                           << >>),
           printed |-> {} ]
    ELSE [ data |-> << >>, printed |-> {Warning("csvs/mechanisms.csv")} ]

----------------------------------------------------------------------------
(* The output tree: the directories under build_path and the files in      *)
(* them.  A directory is its path below build_path (the empty string for   *)
(* build_path itself); a file is << directory, file name >>.               *)

RootDir == << >>
CssDir == << "c", "s", "s" >>
PortraitsDir == << "p", "o", "r", "t", "r", "a", "i", "t", "s" >>

IndexHtml == << RootDir, << "i", "n", "d", "e", "x", ".html" >> >>
ResultsHtml == << RootDir, << "r", "e", "s", "u", "l", "t", "s", ".html" >> >>

\* The position of the last "/" of a name, 0 when it has none.
LastSlash(name) ==
    IF \E k \in 1..Len(name) : name[k] = "/"
    THEN CHOOSE k \in 1..Len(name) :
             name[k] = "/" /\ \A j \in (k + 1)..Len(name) : name[j] # "/"
    ELSE 0

\* line 302: os.path.join(build_path, f"{extension}.html")
PagePath(name) ==
    LET k == LastSlash(name)
    IN  << IF k = 0 THEN RootDir ELSE SubSeq(name, 1, k - 1),
           SubSeq(name, k + 1, Len(name)) \o << ".html" >> >>

\* open(path, "w") raises FileNotFoundError unless the directory exists.
CanOpen(tree, path) == path[1] \in tree.dirs

\* open(path, "a"): what is written is added to the file's old content.
WriteFileAppending(tree, path, content) ==
    [tree EXCEPT !.files =
        [q \in DOMAIN tree.files \cup {path} |->
            IF q # path THEN tree.files[q]
            ELSE IF path \in DOMAIN tree.files
                 THEN [ old |-> tree.files[path], added |-> content ]
                 ELSE content]]

\* lines 280-281, 285-286, 302-314: open(path, "w") and write
WriteFile(tree, path, content) ==
    [tree EXCEPT !.files =
        [q \in DOMAIN tree.files \cup {path} |->
            IF q = path THEN content ELSE tree.files[q]]]

\* lines 261-262: Path(...).mkdir(exist_ok=True)
MkDir(tree, dir) == [tree EXCEPT !.dirs = @ \cup {dir}]

\* lines 266, 273: shutil.copytree(src, dst, dirs_exist_ok=True)
CopyTree(tree, dir, src) ==
    [ dirs |-> tree.dirs \cup {dir},
      files |-> [q \in DOMAIN tree.files \cup {<< dir, f >> : f \in DOMAIN src} |->
                    IF q[1] = dir /\ q[2] \in DOMAIN src THEN src[q[2]]
                    ELSE tree.files[q]] ]

\* What template.render(**context) returns: the template and its context.
Render(template, context) == [ template |-> template, context |-> context ]

----------------------------------------------------------------------------
(* generate_website                                                        *)

ZeroRate == [ num |-> 0, den |-> 1 ]

LayoutError == << "Error: 'layout' directory not found", "" >>
CssCopied == << "CSS files copied successfully", "" >>
PortraitsCopied == << "Portraits directory copied successfully", "" >>
Generated == << "Website generated successfully", "" >>

NoTables ==
    [ source_code |-> << >>, descriptions |-> << >>, infos |-> << >>,
      mechanisms |-> << >> ]

\* The test with the matrix's rows in place of its header.
HasRow(e, exts, m) == e \in DOMAIN m

\* lines 244, 292: extension in extensions
HasCompatibilityData(e, exts, m) == e \in Range(exts)

\* lines 244-249, 292-297
Compatibility(e, exts, m) ==
    IF HasCompatibilityData(e, exts, m)
    THEN calculate_failure_rate_and_failed_extensions(e, exts, m)
    ELSE [ failure_rate |-> ZeroRate, failed_extensions |-> << >> ]

\* lines 251-258
ResultsEntry(e, exts, m, tabs, incl) ==
    [ name |-> e,
      source_code |-> Get(tabs.source_code, e, ""),
      description |-> IF incl
                      THEN Get(tabs.descriptions, e, "No description available")
                      ELSE "",
      failed_extensions |-> Compatibility(e, exts, m).failed_extensions,
      has_compatibility_data |-> HasCompatibilityData(e, exts, m),
      include_descriptions |-> incl ]

\* lines 292-314
PageContext(e, exts, m, tabs, incl, evidence) ==
    LET c == Compatibility(e, exts, m)
        has == HasCompatibilityData(e, exts, m)
    IN  [ extension_name |-> e,
          failure_rate |-> c.failure_rate,
          source_code |-> Get(tabs.source_code, e, ""),
          description |-> IF incl
                          THEN Get(tabs.descriptions, e, "No description available")
                          ELSE "",
          failed_extensions |-> c.failed_extensions,
          terminal_outputs |-> IF has
                               THEN get_terminal_outputs(e, c.failed_extensions, evidence)
                               ELSE << >>,
          extensibility_types |->
              Get(Get(tabs.infos, e, << >>), "extensibility_types", << "None" >>),
          system_components |->
              Get(Get(tabs.mechanisms, e, << >>), "system_components", << "None" >>),
          has_compatibility_data |-> has,
          include_descriptions |-> incl ]

otherVars == << results, extension, failed_extensions, terminal_outputs >>
inputVars == << fs, include_descriptions, build0 >>
dataVars == << tables, all_extensions, extensions, matrix >>

\* The layout check that prints its diagnostic and goes on.
CheckLayoutWithoutReturn ==
    /\ pc = "start"
    /\ log' = IF fs.layout THEN log ELSE log \cup {LayoutError}
    /\ pc' = "read"
    /\ UNCHANGED << inputVars, dataVars, otherVars, build, run, extension_data,
                    idx, tree1 >>

\* lines 215-223
CheckLayout ==
    /\ pc = "start"
    /\ IF fs.layout
       THEN /\ pc' = "read"
            /\ log' = log
       ELSE /\ pc' = "returned"
            /\ log' = log \cup {LayoutError}
    /\ UNCHANGED << inputVars, dataVars, otherVars, build, run, extension_data,
                    idx, tree1 >>

\* The readers with an absent metadata file raising like the matrix's open().
ReadInputsMetadataFatal ==
    /\ pc = "read"
    /\ IF TabularPaths \subseteq fs.present
       THEN LET info == parse_infos_csv(fs)
                parsed == parse_csv(fs.compatibility_rows)
            IN  /\ tables' = [ source_code |-> parse_source_code_csv(fs).data,
                               descriptions |-> parse_descriptions_csv(fs).data,
                               infos |-> info.data,
                               mechanisms |-> parse_mechanisms_csv(fs).data ]
                /\ all_extensions' = info.extensions_list
                /\ extensions' = parsed.extensions
                /\ matrix' = parsed.matrix
                /\ pc' = "data"
       ELSE /\ pc' = "raised"
            /\ UNCHANGED dataVars
    /\ UNCHANGED << inputVars, otherVars, build, run, log, extension_data, idx, tree1 >>

\* lines 229-238: open(csv_file_path) is not guarded, the four readers are.
ReadInputs ==
    /\ pc = "read"
    /\ IF "csvs/compatibility.csv" \in fs.present
       THEN LET src == parse_source_code_csv(fs)
                desc == parse_descriptions_csv(fs)
                info == parse_infos_csv(fs)
                mech == parse_mechanisms_csv(fs)
                parsed == parse_csv(fs.compatibility_rows)
            IN  /\ tables' = [ source_code |-> src.data, descriptions |-> desc.data,
                               infos |-> info.data, mechanisms |-> mech.data ]
                /\ all_extensions' = info.extensions_list
                /\ extensions' = parsed.extensions
                /\ matrix' = parsed.matrix
                /\ log' = log \cup src.printed \cup desc.printed
                              \cup info.printed \cup mech.printed
                /\ pc' = "data"
       ELSE /\ pc' = "raised"                     \* FileNotFoundError, line 229
            /\ UNCHANGED << dataVars, log >>
    /\ UNCHANGED << inputVars, otherVars, build, run, extension_data, idx, tree1 >>

\* lines 241-258
PrepareExtensionData ==
    /\ pc = "data"
    /\ extension_data' = [k \in 1..Len(all_extensions) |->
            ResultsEntry(all_extensions[k], extensions, matrix, tables,
                         include_descriptions)]
    /\ pc' = "mkdir"
    /\ UNCHANGED << inputVars, dataVars, otherVars, build, run, log, idx, tree1 >>

\* lines 261-262
MakeDirs ==
    /\ pc = "mkdir"
    /\ build' = MkDir(MkDir(build, RootDir), CssDir)
    /\ pc' = "css"
    /\ UNCHANGED << inputVars, dataVars, otherVars, run, log, extension_data, idx,
                    tree1 >>

\* lines 265-269
CopyCss ==
    /\ pc = "css"
    /\ IF "layout/css" \in fs.present
       THEN /\ build' = CopyTree(build, CssDir, fs.css_files)
            /\ log' = log \cup {CssCopied}
       ELSE /\ build' = build
            /\ log' = log \cup {Warning("layout/css")}
    /\ pc' = "portraits"
    /\ UNCHANGED << inputVars, dataVars, otherVars, run, extension_data, idx, tree1 >>

\* lines 272-276
CopyPortraits ==
    /\ pc = "portraits"
    /\ IF "portraits" \in fs.present
       THEN /\ build' = CopyTree(build, PortraitsDir, fs.portrait_files)
            /\ log' = log \cup {PortraitsCopied}
       ELSE /\ build' = build
            /\ log' = log \cup {Warning("portraits")}
    /\ pc' = "index"
    /\ UNCHANGED << inputVars, dataVars, otherVars, run, extension_data, idx, tree1 >>

\* lines 279-281
WriteIndex ==
    /\ pc = "index"
    /\ build' = WriteFile(build, IndexHtml,
                          Render("index.html", [ page_name |-> "home" ]))
    /\ pc' = "results"
    /\ UNCHANGED << inputVars, dataVars, otherVars, run, log, extension_data, idx,
                    tree1 >>

\* lines 284-286, and line 289
WriteResults ==
    /\ pc = "results"
    /\ build' = WriteFile(build, ResultsHtml,
            Render("results.html",
                   [ extension_data |-> extension_data, page_name |-> "results",
                     include_descriptions |-> include_descriptions ]))
    /\ idx' = 1
    /\ pc' = "pages"
    /\ UNCHANGED << inputVars, dataVars, otherVars, run, log, extension_data, tree1 >>

\* lines 290-314: one pass of the loop over all_extensions
WritePage ==
    /\ pc = "pages"
    /\ idx <= Len(all_extensions)
    /\ LET e == all_extensions[idx]
           page == Render("extension.html",
                          PageContext(e, extensions, matrix, tables,
                                      include_descriptions, fs.evidence))
       IN  IF CanOpen(build, PagePath(e))
           THEN /\ build' = WriteFile(build, PagePath(e), page)
                /\ idx' = idx + 1
                /\ pc' = "pages"
           ELSE /\ pc' = "raised"                 \* FileNotFoundError, line 302
                /\ UNCHANGED << build, idx >>
    /\ UNCHANGED << inputVars, dataVars, otherVars, run, log, extension_data, tree1 >>

\* lines 316-321
PrintSummary ==
    /\ pc = "pages"
    /\ idx > Len(all_extensions)
    /\ log' = log \cup {Generated}
    /\ pc' = "returned"
    /\ UNCHANGED << inputVars, dataVars, otherVars, build, run, extension_data, idx,
                    tree1 >>

\* generate_website called again with the same arguments and the same files,
\* once the first call has returned or raised.
RunAgain ==
    /\ pc \in {"returned", "raised"}
    /\ run = 1
    /\ run' = 2
    /\ tree1' = build
    /\ pc' = "start"
    /\ log' = {}
    /\ tables' = NoTables
    /\ all_extensions' = << >>
    /\ extensions' = << >>
    /\ matrix' = << >>
    /\ extension_data' = << >>
    /\ idx' = 0
    /\ UNCHANGED << inputVars, otherVars, build >>

----------------------------------------------------------------------------
(* The inputs of generate_website.                                         *)

nSlash == << "a", "/", "b" >>

\* The names infos.csv may list: a is in the matrix, c is not, and the page
\* of a/b is build/a/b.html, in a directory nothing creates.
InfoNames == {nA, nC, nSlash}

\* infos.csv lists at most MaxPages extensions.
MaxPages == 2

\* At most MaxMissing of the csv files and asset directories are absent.
MaxMissing == 1

sNO == << " ", "N", "O" >>

InfoRow(n) ==
    [ name |-> n,
      flags |-> IF n = nA THEN [ Functions |-> sYes, Types |-> sNO ]
                ELSE IF n = nC THEN [ Functions |-> sNo ]
                ELSE [ Types |-> sYes ] ]

\* compatibility.csv with the header ",b,a" and the rows of a and of b.
SquareTable(ab, ba) ==
    << << << >>, nB, nA >>,
       << nA, ab, sYes >>,
       << nB, sYes, ba >> >>

\* compatibility.csv with the header ",b": a has a row and no column.
RowOnlyTable ==
    << << << >>, nB >>,
       << nA, sNO >>,
       << nB, sYes >> >>

CompatTables ==
    { SquareTable(ab, ba) : ab \in {sYes, sNO}, ba \in {sYes, sNo} }
        \cup { RowOnlyTable }

Files(layout, missing, infoList, compat) ==
    [ layout |-> layout,
      present |-> (TabularPaths \cup AssetPaths) \ missing,
      compatibility_rows |-> compat,
      source_code_rows |-> << [ name |-> << "a", " " >>, value |-> "https://example.org/a" ] >>,
      descriptions_rows |-> << [ name |-> nA, value |-> "about a" ],
                               [ name |-> nC, value |-> "about c" ] >>,
      infos_rows |-> [k \in 1..Len(infoList) |-> InfoRow(infoList[k])],
      mechanisms_rows |->
          << [ name |-> nA,
               flags |-> ("Background Workers" :> sYes
                            @@ "Number of Components" :> << "1" >>) ],
             [ name |-> nC,
               flags |-> ("Memory Allocation" :> sYes
                            @@ "Number of Components" :> << "0" >>) ] >>,
      css_files |-> (<< "custom.css" >> :> [ bytes |-> "css, new" ]),
      portrait_files |-> (<< "portrait.png" >> :> [ bytes |-> "png" ]),
      evidence |-> (nAB :> [ readable |-> TRUE, content |-> 1 ]) ]

\* Without the layout nothing else is read: one choice of the rest is enough.
GenInputs ==
    { Files(TRUE, missing, infoList, compat) :
        missing \in {M \in SUBSET (TabularPaths \cup AssetPaths) :
                        Cardinality(M) <= MaxMissing},
        infoList \in DistinctSeqs(InfoNames, MaxPages),
        compat \in CompatTables }
    \cup { Files(FALSE, {}, << nA, nC >>, SquareTable(sNO, sYes)) }

EmptyTree == [ dirs |-> {}, files |-> << >> ]

\* An output tree left by an earlier generation from other inputs.
StaleTree ==
    [ dirs |-> {RootDir, CssDir},
      files |-> (IndexHtml :> Render("index.html", [ page_name |-> "stale" ]))
                  @@ (<< CssDir, << "custom.css" >> >> :> [ bytes |-> "css, old" ])
                  @@ (<< RootDir, << "old.html" >> >> :> [ bytes |-> "old page" ]) ]

Init ==
    /\ fs \in GenInputs
    /\ include_descriptions \in BOOLEAN
    /\ build0 \in {EmptyTree, StaleTree}
    /\ build = build0
    /\ pc = "start"
    /\ run = 1
    /\ log = {}
    /\ tables = NoTables
    /\ all_extensions = << >>
    /\ extensions = << >>
    /\ matrix = << >>
    /\ extension_data = << >>
    /\ idx = 0
    /\ tree1 = EmptyTree
    /\ results = None /\ extension = None /\ failed_extensions = << >>
    /\ terminal_outputs = None

Next ==
    \/ CheckLayout
    \/ ReadInputs
    \/ PrepareExtensionData
    \/ MakeDirs
    \/ CopyCss
    \/ CopyPortraits
    \/ WriteIndex
    \/ WriteResults
    \/ WritePage
    \/ PrintSummary
    \/ RunAgain

Spec == Init /\ [][Next]_vars

----------------------------------------------------------------------------
(* The contract of generate_website.                                       *)

Terminated == pc \in {"returned", "raised"}

Universe == Range(all_extensions)

Written(path) == path \in DOMAIN build.files

\* The output tree as the current run found it.
TreeAtStart == IF run = 1 THEN build0 ELSE tree1

\* The table a metadata file is read into.
TableOf(path) ==
    CASE path = "csvs/source_code.csv" -> tables.source_code
      [] path = "csvs/descriptions.csv" -> tables.descriptions
      [] path = "csvs/infos.csv" -> tables.infos
      [] path = "csvs/mechanisms.csv" -> tables.mechanisms

\* The extension pages the loop has written so far in this run.
PagesDone == IF pc \in {"pages", "returned", "raised"} /\ idx >= 1 THEN idx - 1 ELSE 0

\* C4 as stated: of a completed run, every extension of infos that the
\* matrix does not hold has its page written, and both its results entry and
\* its page carry has_compatibility_data = false, failure_rate = 0,
\* failed_extensions = [] and an empty evidence sequence; every extension
\* the matrix holds gets has_compatibility_data = true.
C4_Original ==
    (fs.layout /\ pc = "returned") =>
        \A k \in 1..Len(all_extensions) :
            LET e == all_extensions[k]
                entry == extension_data[k]
                inMatrix == e \in Known \/ e \in DOMAIN matrix
            IN  /\ ~ inMatrix =>
                      /\ Written(PagePath(e))
                      /\ build.files[PagePath(e)].context.has_compatibility_data = FALSE
                      /\ build.files[PagePath(e)].context.failure_rate = ZeroRate
                      /\ build.files[PagePath(e)].context.failed_extensions = << >>
                      /\ build.files[PagePath(e)].context.terminal_outputs = << >>
                      /\ entry.has_compatibility_data = FALSE
                      /\ entry.failed_extensions = << >>
                      /\ "failure_rate" \in DOMAIN entry
                      /\ entry.failure_rate = ZeroRate
                      /\ "terminal_outputs" \in DOMAIN entry
                      /\ entry.terminal_outputs = << >>
                /\ inMatrix =>
                      /\ build.files[PagePath(e)].context.has_compatibility_data = TRUE
                      /\ entry.has_compatibility_data = TRUE

\* C4, amended: no extension of infos is skipped.  Its results entry holds
\* exactly name, source_code, description, failed_extensions,
\* has_compatibility_data and include_descriptions; has_compatibility_data
\* is true exactly for the names of the matrix header, and an extension not
\* in the header has failed_extensions = [] in its entry and failure_rate =
\* 0, failed_extensions = [] and no evidence on its page; a run that returns
\* has written the results page and the page of every extension.
C4_NoCompatibilityData ==
    fs.layout =>
        /\ pc \in {"mkdir", "css", "portraits", "index", "results", "pages", "returned"} =>
              /\ Len(extension_data) = Len(all_extensions)
              /\ \A k \in 1..Len(all_extensions) :
                    LET e == all_extensions[k]
                        entry == extension_data[k]
                    IN  /\ DOMAIN entry =
                              { "name", "source_code", "description", "failed_extensions",
                                "has_compatibility_data", "include_descriptions" }
                        /\ entry.name = e
                        /\ entry.has_compatibility_data = (e \in Known)
                        /\ e \notin Known => entry.failed_extensions = << >>
        /\ \A k \in 1..PagesDone :
              LET e == all_extensions[k]
              IN  /\ Written(PagePath(e))
                  /\ LET ctx == build.files[PagePath(e)].context
                     IN  /\ ctx.extension_name = e
                         /\ ctx.has_compatibility_data = (e \in Known)
                         /\ e \notin Known =>
                               /\ ctx.failure_rate = ZeroRate
                               /\ ctx.failed_extensions = << >>
                               /\ ctx.terminal_outputs = << >>
        /\ pc = "returned" =>
              /\ PagesDone = Len(all_extensions)
              /\ Written(ResultsHtml)
              /\ build.files[ResultsHtml].context.extension_data = extension_data

\* c is in infos and not in the matrix, a is in both and fails with b.
C4_Witness ==
    /\ pc = "returned"
    /\ all_extensions = << nC, nA >>
    /\ extensions = << nB, nA >>
    /\ Written(PagePath(nC))
    /\ build.files[PagePath(nC)].context.has_compatibility_data = FALSE
    /\ build.files[PagePath(nA)].context.has_compatibility_data = TRUE
    /\ build.files[PagePath(nA)].context.failed_extensions = << nB >>
    /\ build.files[PagePath(nA)].context.terminal_outputs # << >>

\* C6: without the layout directory generate_website prints its diagnostic
\* and returns; the output tree stays as it was: no directory is created, no
\* asset copied, no page written.
C6_LayoutAbsent ==
    ~ fs.layout =>
        /\ build = build0
        /\ pc \in {"start", "returned"}
        /\ pc = "returned" => LayoutError \in log

C6_Witness ==
    /\ ~ fs.layout
    /\ pc = "returned"
    /\ build0 = EmptyTree
    /\ build = EmptyTree
    /\ LayoutError \in log

\* C7 as stated: whichever tabular file is absent (the matrix included), the
\* run warns, returns normally and has written the home page, the results
\* page and a page for every extension of the universe.
C7_Original ==
    \A path \in TabularPaths :
        (fs.layout /\ path \notin fs.present /\ Terminated) =>
            /\ Warning(path) \in log
            /\ pc = "returned"
            /\ Written(IndexHtml)
            /\ Written(ResultsHtml)
            /\ \A e \in Universe : Written(PagePath(e))

\* C7, amended: an absent metadata file (source code, descriptions, infos,
\* mechanisms) gives a warning and empty data and never ends the run; an
\* absent compatibility.csv makes the run raise before anything is printed
\* or written; with the templates present and the rows well formed, the
\* only other raise is a page that cannot be opened, after the home and
\* results pages and the earlier extension pages are written; a run that
\* returns has written home, results and every extension's page.
C7_MissingInput ==
    fs.layout =>
        /\ \A path \in MetadataPaths \ fs.present :
              pc \notin {"start", "read"} /\ "csvs/compatibility.csv" \in fs.present =>
                  /\ Warning(path) \in log
                  /\ TableOf(path) = << >>
                  /\ path = "csvs/infos.csv" => all_extensions = << >>
        /\ "csvs/compatibility.csv" \notin fs.present =>
              /\ pc \in {"start", "read", "raised"}
              /\ build = TreeAtStart
              /\ log = {}
        /\ (pc = "raised" /\ "csvs/compatibility.csv" \in fs.present) =>
              /\ idx \in 1..Len(all_extensions)
              /\ ~ CanOpen(build, PagePath(all_extensions[idx]))
              /\ Written(IndexHtml) /\ Written(ResultsHtml)
              /\ \A k \in 1..(idx - 1) : Written(PagePath(all_extensions[k]))
        /\ pc = "returned" =>
              /\ Generated \in log
              /\ Written(IndexHtml) /\ Written(ResultsHtml)
              /\ \A e \in Universe : Written(PagePath(e))

\* descriptions.csv is absent and descriptions are asked for.
C7_Witness ==
    /\ fs.layout
    /\ pc = "returned"
    /\ "csvs/descriptions.csv" \notin fs.present
    /\ include_descriptions
    /\ all_extensions = << nA, nC >>
    /\ Warning("csvs/descriptions.csv") \in log
    /\ build.files[PagePath(nA)].context.description = "No description available"
    /\ Written(PagePath(nC))

\* C8: when generate_website has ended, every extension of the universe
\* whose page can be opened has its page written, whatever happened to the
\* pages of the others.
C8_Independent ==
    (fs.layout /\ Terminated /\ "csvs/compatibility.csv" \in fs.present) =>
        \A e \in Universe : CanOpen(build, PagePath(e)) => Written(PagePath(e))

\* C9: the second run over the same inputs leaves the output tree as the
\* first run left it: the same files with the same contents.
C9_Idempotent ==
    (run = 2 /\ Terminated) => build = tree1

\* Both runs complete, over an output tree that held older files.
C9_Witness ==
    /\ run = 2
    /\ pc = "returned"
    /\ build0 = StaleTree
    /\ all_extensions = << nA, nC >>
    /\ build = tree1
    /\ build.files[IndexHtml].context.page_name = "home"
    /\ Written(<< RootDir, << "old.html" >> >>)
    /\ Written(PagePath(nC))

====
